---- MODULE Spec2Model ----
(***************************************************************************)
(* Triadic forgiveness operator (triadic_forgiveness_operator.py).         *)
(*                                                                         *)
(* Numbers are fixed point.  Bounded (sigmoid-space) values are integers   *)
(* in units of 1e-9, so 1.0 is SCALE and the clamp epsilon 1e-9 is EPS.    *)
(* Unbounded (logit-space) values are integers in units of 1e-6.  The      *)
(* transcendental pair logit/sigmoid is a table of knots: the two clamp    *)
(* ends and every multiple of 0.01.  A value between knots is rounded to   *)
(* the nearest knot, the fixed-point counterpart of float rounding.        *)
(***************************************************************************)
EXTENDS Integers, Sequences, FiniteSets, TLC

VARIABLES confession, memory_log, call, pre, preLog, error, ret,
          pc, observed, local, outcome

vars == <<confession, memory_log, call, pre, preLog, error, ret,
          pc, observed, local, outcome>>

seqVars == <<confession, memory_log, call, pre, preLog, error, ret>>
concVars == <<pc, observed, local, outcome>>

-----------------------------------------------------------------------------
(* Fixed-point constants *)

\* 1.0 in bounded space
SCALE == 1000000000
\* 1e-9, the clamp of logit
EPS == 1
\* 60, the clamp of sigmoid, in units of 1e-6
ZCLIP == 60000000
\* ln(1e-9 / (1 - 1e-9)) = -20.723266, in units of 1e-6
ZEPS == 20723266
\* 0.5, the neutral midpoint of memory decay
HALF == 500000000
\* 0.95, the dwelling cap
CAP == 950000000
\* 0.1, the closure floor
FLOOR == 100000000
\* distance between two table knots: 0.01
STEP == 10000000

Min2(a, b) == IF a <= b THEN a ELSE b
Max2(a, b) == IF a >= b THEN a ELSE b
clip(v, lo, hi) == Max2(lo, Min2(v, hi))

\* fixed-point product of two values in units of 1e-9
Mul(a, b) == (a \div 100000) * (b \div 10000)

\* ln(x / (1 - x)) for x = 0.01, 0.02, ..., 0.99, in units of 1e-6
LOGIT_PCT == <<
    -4595120, -3891820, -3476099, -3178054, -2944439, -2751535, -2586689, -2442347, -2313635,
    -2197225, -2090741, -1992430, -1900959, -1815290, -1734601, -1658228, -1585627, -1516347,
    -1450010, -1386294, -1324925, -1265666, -1208311, -1152680, -1098612, -1045969, -994623,
    -944462, -895384, -847298, -800119, -753772, -708185, -663294, -619039, -575364,
    -532217, -489548, -447312, -405465, -363965, -322773, -281851, -241162, -200671,
    -160343, -120144, -80043, -40005, 0, 40005, 80043, 120144, 160343,
    200671, 241162, 281851, 322773, 363965, 405465, 447312, 489548, 532217,
    575364, 619039, 663294, 708185, 753772, 800119, 847298, 895384, 944462,
    994623, 1045969, 1098612, 1152680, 1208311, 1265666, 1324925, 1386294, 1450010,
    1516347, 1585627, 1658228, 1734601, 1815290, 1900959, 1992430, 2090741, 2197225,
    2313635, 2442347, 2586689, 2751535, 2944439, 3178054, 3476099, 3891820, 4595120 >>

\* number of knots: the two clamp ends and 0.01 .. 0.99
NKnots == Len(LOGIT_PCT) + 2

\* the bounded values the table holds, in increasing order
KnotX == [i \in 1..NKnots |->
            IF i = 1 THEN EPS
            ELSE IF i = NKnots THEN SCALE - EPS
            ELSE (i - 1) * STEP]

\* np.log(x / (1.0 - x)) at the knots, in increasing order
KnotZ == [i \in 1..NKnots |->
            IF i = 1 THEN -ZEPS
            ELSE IF i = NKnots THEN ZEPS
            ELSE LOGIT_PCT[i - 1]]

\* index of the knot nearest to a clamped bounded value
NearestKnot(x) ==
    IF x = EPS \/ 2 * x < STEP THEN 1
    ELSE IF x = SCALE - EPS \/ 2 * (SCALE - x) <= STEP THEN NKnots
    ELSE ((2 * x + STEP) \div (2 * STEP)) + 1

\* Inverse sigmoid: maps (0,1) -> R
logit(x) == KnotZ[NearestKnot(clip(x, EPS, SCALE - EPS))]

\* 1.0 / (1.0 + np.exp(-z)) of a clamped z, rounded to units of 1e-9
ExpAt(z) ==
    IF z < -ZEPS THEN 0
    ELSE IF z > ZEPS THEN SCALE
    ELSE LET lo == Cardinality({i \in 1..NKnots : KnotZ[i] <= z})
             hi == Min2(lo + 1, NKnots)
         IN  IF z - KnotZ[lo] <= KnotZ[hi] - z THEN KnotX[lo] ELSE KnotX[hi]

\* Bounded activation: maps R -> (0,1)
sigmoid(z) == ExpAt(clip(z, -ZCLIP, ZCLIP))

-----------------------------------------------------------------------------
(* State definitions *)

UNKNOWN == "unknown"
AUTHORIZED_CLEAR == "clear"
AUTHORIZED_FLAG == "flag"
FORGIVEN == "forgiven"

DeterminationState == {UNKNOWN, AUTHORIZED_CLEAR, AUTHORIZED_FLAG, FORGIVEN}

\* TriadicState(...): seven coordinates in logit space
TriadicState(z1, z2, z3, zc, zMf, zMs, zD) ==
    [z1 |-> z1, z2 |-> z2, z3 |-> z3, zc |-> zc, zMf |-> zMf, zMs |-> zMs, zD |-> zD]

\* TriadicState(): the dataclass defaults
DefaultState ==
    TriadicState(logit(200000000), logit(100000000), logit(150000000),
                 logit(50000000), logit(100000000), logit(100000000),
                 logit(600000000))

\* TriadicState.to_sigmoid
to_sigmoid(s) ==
    [x1 |-> sigmoid(s.z1), x2 |-> sigmoid(s.z2), x3 |-> sigmoid(s.z3),
     closure |-> sigmoid(s.zc),
     memory_fast |-> sigmoid(s.zMf), memory_slow |-> sigmoid(s.zMs),
     dwelling |-> sigmoid(s.zD)]

\* the two ValueErrors of the module, told apart by their message
NoError == "none"
AuthorizationError == "Cannot authorize without witness"
InvalidStateError == "Can only forgive UNKNOWN states"

\* authorize without its witness check
authorizeUnguarded(c, determination) ==
    [error |-> NoError,
     confession |-> [c EXCEPT !.determination = determination]]

\* ConfessionRecord.authorize: [error, confession]
authorize(c, determination) ==
    IF ~c.witnessed
    THEN [error |-> AuthorizationError, confession |-> c]
    ELSE [error |-> NoError,
          confession |-> [c EXCEPT !.determination = determination]]

\* the guard of forgive, letting an authorized_clear confession through
CanForgiveOrClear(c) == c.determination \in {UNKNOWN, AUTHORIZED_CLEAR}

\* the guard of forgive with its comparison inverted
CanForgiveInverted(c) == c.determination # UNKNOWN

\* the guard of forgive
CanForgive(c) == c.determination = UNKNOWN

\* Memory decay (not erasure)
Decay(m, memory_decay_rate) ==
    Mul(SCALE - memory_decay_rate, m) + Mul(memory_decay_rate, HALF)

\* dwelling restoration without the 0.95 cap
DwellingNoCap(d, dwelling_boost) == d + dwelling_boost

\* Dwelling restoration
DwellingNew(d, dwelling_boost) == Min2(d + dwelling_boost, CAP)

\* Closure reduction (re-open plasticity)
ClosureNew(c, closure_reduction) == Max2(c - closure_reduction, FLOOR)

\* the restored state with the facets recomputed through bounded space
\* instead of copied
RestoredRecomputed(state, memory_decay_rate, dwelling_boost, closure_reduction) ==
    LET bounded == to_sigmoid(state)
        Mf_new == Decay(bounded.memory_fast, memory_decay_rate)
        Ms_new == Decay(bounded.memory_slow, memory_decay_rate)
        D_new == DwellingNew(bounded.dwelling, dwelling_boost)
        c_new == ClosureNew(bounded.closure, closure_reduction)
    IN  TriadicState(logit(bounded.x1), logit(bounded.x2), logit(bounded.x3),
                     logit(c_new), logit(Mf_new), logit(Ms_new), logit(D_new))

\* the TriadicState forgive builds from the confession's state
Restored(state, memory_decay_rate, dwelling_boost, closure_reduction) ==
    LET bounded == to_sigmoid(state)
        Mf_new == Decay(bounded.memory_fast, memory_decay_rate)
        Ms_new == Decay(bounded.memory_slow, memory_decay_rate)
        D_new == DwellingNew(bounded.dwelling, dwelling_boost)
        c_new == ClosureNew(bounded.closure, closure_reduction)
    IN  TriadicState(state.z1, state.z2, state.z3,
                     logit(c_new), logit(Mf_new), logit(Ms_new), logit(D_new))

\* forgive writing the restored state into the confession as well
forgiveInPlace(c, memory_decay_rate, dwelling_boost, closure_reduction) ==
    IF ~CanForgive(c)
    THEN [error |-> InvalidStateError, ret |-> <<>>, confession |-> c]
    ELSE LET restored == Restored(c.state, memory_decay_rate, dwelling_boost,
                                  closure_reduction)
             a == authorize(c, FORGIVEN)
         IN  IF a.error # NoError
             THEN [error |-> a.error, ret |-> <<>>, confession |-> a.confession]
             ELSE [error |-> NoError, ret |-> <<restored>>,
                   confession |-> [a.confession EXCEPT !.state = restored]]

\* forgive assigning the determination itself instead of calling authorize
forgiveDirect(c, memory_decay_rate, dwelling_boost, closure_reduction) ==
    IF ~CanForgive(c)
    THEN [error |-> InvalidStateError, ret |-> <<>>, confession |-> c]
    ELSE [error |-> NoError,
          ret |-> <<Restored(c.state, memory_decay_rate, dwelling_boost,
                             closure_reduction)>>,
          confession |-> [c EXCEPT !.determination = FORGIVEN]]

\* ForgivenessOperator.forgive: [error, ret, confession]; ret is <<>> when it raises
forgive(c, memory_decay_rate, dwelling_boost, closure_reduction) ==
    IF ~CanForgive(c)
    THEN [error |-> InvalidStateError, ret |-> <<>>, confession |-> c]
    ELSE LET restored == Restored(c.state, memory_decay_rate, dwelling_boost,
                                  closure_reduction)
             a == authorize(c, FORGIVEN)
         IN  IF a.error # NoError
             THEN [error |-> a.error, ret |-> <<>>, confession |-> a.confession]
             ELSE [error |-> NoError, ret |-> <<restored>>,
                   confession |-> a.confession]

\* forget removing a signature that is already in the log
forgetToggle(error_signature, log) ==
    IF error_signature \in log
    THEN log \ {error_signature}
    ELSE log \cup {error_signature}

\* ForgivenessOperator.forget: the log after memory_log.add(error_signature)
forget(error_signature, log) == log \cup {error_signature}

-----------------------------------------------------------------------------
(* Inputs *)

\* number of distinct error signatures
MaxSigs == 2
Signatures == 1..MaxSigs

\* the error state of demonstrate_forgiveness
DemoState ==
    TriadicState(logit(800000000), logit(200000000), logit(300000000),
                 logit(900000000), logit(700000000), logit(600000000),
                 logit(100000000))

\* dwelling 0.9 and closure 0.15: the cap and the floor are reached
CapFloorState ==
    [DefaultState EXCEPT !.zD = logit(900000000), !.zc = logit(150000000)]

\* dwelling 0.99, above the cap
HighDwellingState == [DefaultState EXCEPT !.zD = logit(990000000)]

\* coordinates at and beyond the clamp of sigmoid
SaturatedState ==
    TriadicState(70000000, -70000000, 0, -ZCLIP, ZCLIP, -ZCLIP, ZCLIP)

States == {DefaultState, DemoState, CapFloorState, HighDwellingState, SaturatedState}

DecayRates == {0, 300000000, SCALE}
Boosts == {-500000000, 0, 300000000}
Reductions == {-SCALE, 0, 200000000}
Descriptions == {"locked", "drift"}

\* ConfessionRecord(...) as the constructor can build it
Confessions ==
    [time : {10}, state : States, coherence : {48000000}, divergence : {249000000},
     error_description : Descriptions, witnessed : BOOLEAN,
     determination : DeterminationState]

NoCall == [op |-> "none", determination |-> UNKNOWN, rate |-> 0, boost |-> 0,
           reduction |-> 0, signature |-> 0]

-----------------------------------------------------------------------------
(* Sequential use: one call at a time *)

InitConc ==
    /\ pc = [p \in 1..2 |-> "start"]
    /\ observed = [p \in 1..2 |-> FALSE]
    /\ local = [p \in 1..2 |-> <<>>]
    /\ outcome = [p \in 1..2 |-> "pending"]

Init ==
    /\ confession \in Confessions
    /\ memory_log = {}
    /\ call = NoCall
    /\ pre = confession
    /\ preLog = memory_log
    /\ error = NoError
    /\ ret = <<>>
    /\ InitConc

\* a confession created with the default determination
InitDefault ==
    /\ Init
    /\ confession.determination = UNKNOWN

\* the external authority marks the confession witnessed
SetWitnessed ==
    /\ ~confession.witnessed
    /\ pre' = confession
    /\ preLog' = memory_log
    /\ confession' = [confession EXCEPT !.witnessed = TRUE]
    /\ call' = [NoCall EXCEPT !.op = "witness"]
    /\ error' = NoError
    /\ ret' = <<>>
    /\ UNCHANGED <<memory_log, concVars>>

Authorize ==
    \E d \in DeterminationState :
        LET r == authorize(confession, d) IN
        /\ pre' = confession
        /\ preLog' = memory_log
        /\ confession' = r.confession
        /\ call' = [NoCall EXCEPT !.op = "authorize", !.determination = d]
        /\ error' = r.error
        /\ ret' = <<>>
        /\ UNCHANGED <<memory_log, concVars>>

Forgive ==
    \E rate \in DecayRates, boost \in Boosts, red \in Reductions :
        LET r == forgive(confession, rate, boost, red) IN
        /\ pre' = confession
        /\ preLog' = memory_log
        /\ confession' = r.confession
        /\ call' = [NoCall EXCEPT !.op = "forgive", !.rate = rate,
                                  !.boost = boost, !.reduction = red]
        /\ error' = r.error
        /\ ret' = r.ret
        /\ UNCHANGED <<memory_log, concVars>>

Forget ==
    \E sig \in Signatures :
        /\ pre' = confession
        /\ preLog' = memory_log
        /\ memory_log' = forget(sig, memory_log)
        /\ call' = [NoCall EXCEPT !.op = "forget", !.signature = sig]
        /\ error' = NoError
        /\ ret' = <<>>
        /\ UNCHANGED <<confession, concVars>>

Next == SetWitnessed \/ Authorize \/ Forgive \/ Forget

Spec == Init /\ [][Next]_vars

SpecDefault == InitDefault /\ [][Next]_vars

-----------------------------------------------------------------------------
(* Two forgive calls on one confession, interleaved statement by statement *)

Callers == 1..2
Other(p) == 3 - p

Returned == "returned"

\* line 104-105: the determination check of forgive
FCheck(p) ==
    /\ pc[p] = "start"
    /\ IF CanForgive(confession)
       THEN /\ pc' = [pc EXCEPT ![p] = "checked"]
            /\ observed' = [observed EXCEPT ![p] = TRUE]
            /\ UNCHANGED outcome
       ELSE /\ pc' = [pc EXCEPT ![p] = "done"]
            /\ outcome' = [outcome EXCEPT ![p] = InvalidStateError]
            /\ UNCHANGED observed
    /\ UNCHANGED <<local, seqVars>>

\* line 107-126: the restored state, held in a local of the call
FCompute(p) ==
    /\ pc[p] = "checked"
    /\ \E rate \in DecayRates, boost \in Boosts, red \in Reductions :
          local' = [local EXCEPT ![p] = <<Restored(confession.state, rate, boost, red)>>]
    /\ pc' = [pc EXCEPT ![p] = "computed"]
    /\ UNCHANGED <<observed, outcome, seqVars>>

\* line 128-129: confession.authorize(FORGIVEN), then return restored
FAuthorize(p) ==
    /\ pc[p] = "computed"
    /\ LET r == authorize(confession, FORGIVEN) IN
          /\ confession' = r.confession
          /\ outcome' = [outcome EXCEPT ![p] =
                            IF r.error = NoError THEN Returned ELSE r.error]
    /\ pc' = [pc EXCEPT ![p] = "done"]
    /\ UNCHANGED <<observed, local, memory_log, call, pre, preLog, error, ret>>

NextConc == \E p \in Callers : FCheck(p) \/ FCompute(p) \/ FAuthorize(p)

SpecConc == Init /\ [][NextConc]_vars

-----------------------------------------------------------------------------
(* Properties *)

ForgiveSucceeded == call.op = "forgive" /\ error = NoError /\ Len(ret) = 1
BoundedBefore == to_sigmoid(pre.state)
BoundedAfter == to_sigmoid(ret[1])

\* C1: once the determination has left unknown, no later authorize or
\* release call changes it, and it is never reset to unknown.
C1_DeterminationChangesAtMostOnce ==
    pre.determination # UNKNOWN => confession.determination = pre.determination

\* C2: release on a confession whose determination is not unknown fails with
\* the invalid-state error, returns no State Record and leaves every field of
\* the confession unchanged.
C2_ReleaseNeedsUnknown ==
    (call.op = "forgive" /\ pre.determination # UNKNOWN)
        => /\ error = InvalidStateError
           /\ ret = <<>>
           /\ confession = pre

C2_Witness ==
    /\ call.op = "forgive"
    /\ pre.determination = FORGIVEN
    /\ pre.witnessed
    /\ error = InvalidStateError

\* C3: authorize on an unwitnessed confession fails with the authorization
\* error and changes no field; on a witnessed confession it sets the
\* determination to exactly the given value and changes nothing else.
C3_AuthorizeGuard ==
    call.op = "authorize"
        => IF pre.witnessed
           THEN /\ error = NoError
                /\ confession.determination = call.determination
                /\ [confession EXCEPT !.determination = pre.determination] = pre
           ELSE /\ error = AuthorizationError
                /\ confession = pre

C3_Witness ==
    /\ call.op = "authorize"
    /\ ~pre.witnessed
    /\ call.determination # pre.determination
    /\ error = AuthorizationError

\* C4 as claimed: two interleaved release calls on a witnessed confession with
\* determination unknown never both observe unknown, and at most one of them
\* returns a State Record.
C4_NeverBothObserveUnknown ==
    (pre.witnessed /\ pre.determination = UNKNOWN)
        => /\ ~(observed[1] /\ observed[2])
           /\ ~(outcome[1] = Returned /\ outcome[2] = Returned)

\* C4 amended: every call that observed unknown returns a State Record when
\* it finishes (so both may), and a call fails with the invalid-state error
\* only after the other call's authorize(forgiven) write, so never both fail.
C4_FailsOnlyAfterOtherWrite ==
    (pre.witnessed /\ pre.determination = UNKNOWN)
        => \A p \in Callers :
              /\ outcome[p] \in {"pending", Returned, InvalidStateError}
              /\ (pc[p] = "done" /\ observed[p]) => outcome[p] = Returned
              /\ outcome[p] = InvalidStateError
                    => /\ ~observed[p]
                       /\ outcome[Other(p)] = Returned
                       /\ confession.determination = FORGIVEN

C4_Witness ==
    /\ pre.witnessed
    /\ pre.determination = UNKNOWN
    /\ observed[1] /\ observed[2]
    /\ outcome[1] = Returned /\ outcome[2] = Returned

\* C5: a successful release changes only the confession's determination, to
\* forgiven; its state, witnessed and the other metadata are as before, and
\* the relaxed coordinates are only in the returned State Record.
C5_ReleaseFrame ==
    ForgiveSucceeded
        => /\ confession.determination = FORGIVEN
           /\ confession.state = pre.state
           /\ confession.witnessed = pre.witnessed
           /\ confession.time = pre.time
           /\ confession.coherence = pre.coherence
           /\ confession.divergence = pre.divergence
           /\ confession.error_description = pre.error_description
           /\ memory_log = preLog

C5_Witness ==
    /\ ForgiveSucceeded
    /\ pre.determination = UNKNOWN
    /\ ret[1] # pre.state
    /\ confession.state = pre.state

\* C6: the State Record a successful release returns has z1, z2, z3 (and so
\* x1, x2, x3) exactly equal to those of the confession's state.
C6_FacetsCopied ==
    ForgiveSucceeded
        => /\ ret[1].z1 = pre.state.z1
           /\ ret[1].z2 = pre.state.z2
           /\ ret[1].z3 = pre.state.z3
           /\ BoundedAfter.x1 = BoundedBefore.x1
           /\ BoundedAfter.x2 = BoundedBefore.x2
           /\ BoundedAfter.x3 = BoundedBefore.x3

C6_Witness ==
    /\ ForgiveSucceeded
    /\ pre.state = SaturatedState
    /\ ret[1].z1 > ZCLIP
    /\ ret[1].zc # pre.state.zc

\* C7: for non-negative restoreBoost and closureReduction the returned
\* bounded closure is at most the input's and the returned bounded dwelling
\* is at least the input's.
C7_ClosureDownDwellingUp ==
    (ForgiveSucceeded /\ call.boost >= 0 /\ call.reduction >= 0)
        => /\ BoundedAfter.closure <= BoundedBefore.closure
           /\ BoundedAfter.dwelling >= BoundedBefore.dwelling

\* C8 as claimed: for every restoreBoost and closureReduction the returned
\* bounded dwelling is min(dwelling + restoreBoost, 0.95) and the returned
\* bounded closure is max(closure - closureReduction, 0.1).
C8_CapFloorExact ==
    ForgiveSucceeded
        => /\ BoundedAfter.dwelling
                = Min2(BoundedBefore.dwelling + call.boost, CAP)
           /\ BoundedAfter.closure
                = Max2(BoundedBefore.closure - call.reduction, FLOOR)

\* C8 amended: the returned bounded dwelling is min(dwelling + restoreBoost,
\* 0.95) clamped to [1e-9, 1 - 1e-9], never above 0.95, and the returned
\* bounded closure is max(closure - closureReduction, 0.1) clamped to
\* [1e-9, 1 - 1e-9], never below 0.1.
C8_CapFloorClamped ==
    ForgiveSucceeded
        => /\ BoundedAfter.dwelling
                = clip(Min2(BoundedBefore.dwelling + call.boost, CAP),
                       EPS, SCALE - EPS)
           /\ BoundedAfter.dwelling <= CAP
           /\ BoundedAfter.closure
                = clip(Max2(BoundedBefore.closure - call.reduction, FLOOR),
                       EPS, SCALE - EPS)
           /\ BoundedAfter.closure >= FLOOR

C8_Witness ==
    /\ ForgiveSucceeded
    /\ BoundedBefore.dwelling = 900000000
    /\ call.boost = 300000000
    /\ BoundedAfter.dwelling = CAP
    /\ BoundedBefore.closure = 150000000
    /\ call.reduction = 200000000
    /\ BoundedAfter.closure = FLOOR

\* C9: forget adds the signature to the log and nothing else; with the
\* signature already in the log the log stays as it is; the confession is
\* not touched.
C9_ForgetIdempotent ==
    call.op = "forget"
        => /\ memory_log = preLog \cup {call.signature}
           /\ call.signature \in preLog => memory_log = preLog
           /\ confession = pre
           /\ ret = <<>>

C9_Witness ==
    /\ call.op = "forget"
    /\ call.signature \in preLog
    /\ Cardinality(memory_log) = MaxSigs

\* C10: from a confession created with determination unknown, a determination
\* other than unknown implies witnessed; release on an unwitnessed confession
\* with determination unknown fails at its authorize step, returns no State
\* Record and leaves the determination unknown.
C10_DeterminedImpliesWitnessed ==
    /\ confession.determination # UNKNOWN => confession.witnessed
    /\ (call.op = "forgive" /\ ~pre.witnessed /\ pre.determination = UNKNOWN)
          => /\ error = AuthorizationError
             /\ ret = <<>>
             /\ confession.determination = UNKNOWN

C10_Witness ==
    /\ call.op = "forgive"
    /\ ~pre.witnessed
    /\ pre.determination = UNKNOWN
    /\ error = AuthorizationError
    /\ confession.determination = UNKNOWN

====
